---- MODULE Spec2Model ----
(***************************************************************************)
(* Verification model of the veps-sender job scheduling and execution      *)
(* engine (JobTimeSchedulerService) and of the delivery gateway            *)
(* (WhatsappService).                                                      *)
(*                                                                         *)
(* Three specifications share the variables of this module:                *)
(*   Spec        the execution loop: overlapping runs of                   *)
(*               executePendingJobs over a small job table;                *)
(*   SpecFilter  filterJobsForCurrentTime applied to one job row;          *)
(*   SpecGateway the circuit breaker and the two send paths.               *)
(***************************************************************************)
EXTENDS Integers, Naturals, Sequences, FiniteSets, TLC

(***************************************************************************)
(* Bounds of the model.                                                    *)
(***************************************************************************)
\* instants per minute: 2 makes half minutes visible, so that a fractional
\* difference such as 1.5 or 60.5 minutes is a case of the model
Res == 2
\* jobs in the job_time table
NumJobs == 2
\* recipients embedded in one job (job.users)
MaxUsers == 2
\* how many times the wall clock advances in the execution-loop model
MaxClockSteps == 1

(***************************************************************************)
(* Time.  An instant is a count of 1/Res minutes of local time in the      *)
(* reference timezone (America/Argentina/Buenos_Aires, no DST).  The       *)
(* calendar fields are computed as luxon computes them, over a non-leap    *)
(* year whose day 0 is January 1st.                                        *)
(***************************************************************************)
MinuteOf(t) == t \div Res
DayIndexOf(t) == MinuteOf(t) \div 1440
MonthLengths == <<31, 28, 31, 30, 31, 30, 31, 31, 30, 31, 30, 31>>

RECURSIVE MonthFrom(_, _)
MonthFrom(dayOfYear, m) ==
  IF m = 12 \/ dayOfYear < MonthLengths[m]
  THEN <<m, dayOfYear + 1>>
  ELSE MonthFrom(dayOfYear - MonthLengths[m], m + 1)

\* now.year, now.month, now.day, now.minute of a luxon DateTime
YearOf(t) == DayIndexOf(t) \div 365
MonthOf(t) == MonthFrom(DayIndexOf(t) % 365, 1)[1]
DayOf(t) == MonthFrom(DayIndexOf(t) % 365, 1)[2]
MinuteOfHour(t) == MinuteOf(t) % 60

\* job.execution_time of a row that has none
NoTime == -1

(***************************************************************************)
(* filterJobsForCurrentTime, the predicate of its jobs.filter callback.    *)
(* timeDiff is now.diff(jobTime, 'minutes').minutes, a fraction: it is     *)
(* kept in instants and compared with the thresholds scaled by Res.        *)
(***************************************************************************)
StaleMinutes == 60
GraceMinutes == 2
IntervalMinutes == 10

timeDiff(now, jobTime) == now - jobTime

IsSameDate(now, jobTime) ==
  /\ DayOf(now) = DayOf(jobTime)
  /\ MonthOf(now) = MonthOf(jobTime)
  /\ YearOf(now) = YearOf(jobTime)

IsFuture(now, jobTime) == timeDiff(now, jobTime) < 0

IsTooOld_strict(now, jobTime) == timeDiff(now, jobTime) >= StaleMinutes * Res
IsTooOld(now, jobTime) == timeDiff(now, jobTime) > StaleMinutes * Res

IntervalOf(minute) == (minute \div IntervalMinutes) * IntervalMinutes

IsSameInterval(now, jobTime) ==
  IntervalOf(MinuteOfHour(now)) = IntervalOf(MinuteOfHour(jobTime))

IsLateEnough(now, jobTime) == timeDiff(now, jobTime) >= GraceMinutes * Res

filterAccepts(now, execution_time) ==
  IF execution_time = NoTime THEN FALSE
  ELSE IF ~IsSameDate(now, execution_time) THEN FALSE
  ELSE IF IsFuture(now, execution_time) THEN FALSE
  ELSE IF IsTooOld(now, execution_time) THEN FALSE
  ELSE IF IsSameInterval(now, execution_time) THEN TRUE
  ELSE IF IsLateEnough(now, execution_time) THEN TRUE
  ELSE FALSE

(***************************************************************************)
(* The job table and the execution loop.                                   *)
(***************************************************************************)
Statuses == {"PENDING", "RUNNING", "FINISHED", "ERROR"}
Jobs == 1..NumJobs
UserIdx == 1..MaxUsers

\* the contexts that call executePendingJobs: the CronJob callback and the
\* manual trigger; nothing keeps one from starting while the other is running
Runs == {"cron", "manual"}

Categories == {"autonomo", "credencial", "monotributo"}
\* job.type is read from the job_time row at run time; getDefaultTemplate
\* has an answer for a type that is none of the fixed categories
JobTypes == Categories \cup {"otro"}

\* job.type and job.execution_time of the rows of the model: one category,
\* the jobs due five minutes apart, the first at 10:00 of day 40
JobTypeOf(j) == "monotributo"
CronMinutes == 5
SchedBase == (40 * 1440 + 600) * Res
ExecTimeOf(j) == SchedBase + (j - 1) * CronMinutes * Res
ClockStart == SchedBase + 3 * Res
ClockEnd == ClockStart + MaxClockSteps * CronMinutes * Res

\* job.users.length of the rows of the model: the first job has MaxUsers
\* recipients, the later ones none (a job without users still completes)
UsersOf(j) == IF j = 1 THEN MaxUsers ELSE 0

\* what a recipient's sendMessageToUser call can end in: a return, or one of
\* the exceptions it throws
DeliveryOutcomes == {"ok", "noDocs", "oversize", "sendFail", "circuitOpen"}
\* the outcomes in which socket.sendMessage was called
SendsTo(o) == o \in {"ok", "sendFail"}

\* what getMessageTemplate can answer: an exception, no row, a row whose
\* text is blank, a row with text
StorageRows == {"throws", "null", "blank", "text"}

VARIABLES
  jobStore,       \* "faulty" when calls on the job_time table can throw
  clock,          \* DateTime.now(), an instant
  status,         \* job_time.status of each job
  executedAt,     \* whether job_time.executed_at is set
  sent,           \* job_time.users[k].sent of each job
  nUsers,         \* job.users.length
  templateCache,  \* JobTimeSchedulerService.templateCache
  pc,             \* where each run of executePendingJobs stands
  queue,          \* jobsToExecute, the part the for loop has not reached
  cur,            \* the job of the latest executeJob call (0 before any)
  idx,            \* the recipient the loop of processJobExecution is at
  results,        \* results[].success of processJobExecution
  pauses,         \* the delay, in ms, after each turn of the recipient loop
  claimRes,       \* what updateJobTimeToRunningIfPending gave this executeJob
  cause,          \* the throw that entered the catch of executeJob
  work,           \* what this executeJob has done after the claim call
  wrote,          \* the status this executeJob has written
  failedWrites,   \* the status writes of this executeJob that threw
  sentFailed,     \* the recipients whose sent-flag write threw
  wins,           \* per job, the claim calls that returned the row
  response        \* the answer of the last manual trigger (<<>> before any)

schedVars == <<jobStore, clock, status, executedAt, sent, nUsers, templateCache, pc,
               queue, cur, idx, results, pauses, claimRes, cause, work, wrote,
               failedWrites, sentFailed, wins, response>>

VARIABLES
  fNow,           \* the now argument of filterJobsForCurrentTime
  fJob,           \* the job row it is applied to
  fSelected       \* "yes" or "no": whether the run selected the row

filterVars == <<fNow, fJob, fSelected>>

\* the delivery gateway: its clock (ms), the circuit breaker's fields, the
\* rate limiter's list, the calls in flight (one per caller), the number
\* of deliveries that failed in a row, and the instants of the last minute
\* at which checkRateLimit returned; and whether the channel and the
\* documents can make a delivery fail
VARIABLES
  channel,
  gwNow,
  consecutiveFailures,
  circuitOpen,
  circuitOpenUntil,
  messageTimestamps,
  calls,
  failedInARow,
  admittedAt

gwVars == <<channel, gwNow, consecutiveFailures, circuitOpen, circuitOpenUntil,
            messageTimestamps, calls, failedInARow, admittedAt>>

\* successive template resolutions of one category: the category, the row
\* storage holds for it, the cache entry before the first resolution, what
\* each resolution returned and whether it called storage
VARIABLES
  tplType,
  tplRow,
  tplCached0,
  tplOutcomes,
  tplFetched

tplVars == <<tplType, tplRow, tplCached0, tplOutcomes, tplFetched>>

\* the documents of one recipient: the recipient's tax id, the tax ids of
\* its linked recipients, the position of sendMessageToUser, the tax ids
\* asked of object storage and the documents found, in order
VARIABLES
  docCuit,
  docJoined,
  docPc,
  docIdx,
  docFetches,
  archives,
  docOwners,      \* whom each found document was fetched for: 0 the
                  \* recipient, k the k-th linked recipient
  docSends,       \* the send calls and the pauses of the delivery, in order
  docRecorded     \* whether the recipient was recorded as delivered

docVars == <<docCuit, docJoined, docPc, docIdx, docFetches, archives,
             docOwners, docSends, docRecorded>>

\* the message of one recipient: the recipient's need flags, whether the
\* template names the recipient, and the rendered text as its parts in order
VARIABLES
  msgUser,
  msgTemplate,
  msgText

msgVars == <<msgUser, msgTemplate, msgText>>

\* the cron decorator over one PENDING row: the reading of the latest tick,
\* the row's execution_time, and the reading of the tick that selected the
\* row (NoTime while none has)
VARIABLES
  tickNow,
  tickJobTime,
  tickSelectedAt

tickVars == <<tickNow, tickJobTime, tickSelectedAt>>

vars ==
  <<schedVars, filterVars, gwVars, tplVars, docVars, msgVars, tickVars>>

\* what the actions of one part leave alone
besidesSched == <<filterVars, gwVars, tplVars, docVars, msgVars, tickVars>>
besidesFilter == <<schedVars, gwVars, tplVars, docVars, msgVars, tickVars>>
besidesGateway == <<schedVars, filterVars, tplVars, docVars, msgVars, tickVars>>
besidesDocs == <<schedVars, filterVars, gwVars, tplVars, msgVars, tickVars>>
besidesMessage == <<schedVars, filterVars, gwVars, tplVars, docVars, tickVars>>
besidesTicks == <<schedVars, filterVars, gwVars, tplVars, docVars, msgVars>>
schedButCache ==
  <<jobStore, clock, status, executedAt, sent, nUsers, pc, queue, cur, idx,
    results, pauses, claimRes, cause, work, wrote, failedWrites, sentFailed,
    wins,
    response>>
besidesTemplate ==
  <<schedButCache, filterVars, gwVars, docVars, msgVars, tickVars>>

(***************************************************************************)
(* Persistence, as the execution loop uses it.                             *)
(***************************************************************************)
RECURSIVE DescendingFrom(_, _)
DescendingFrom(j, S) ==
  IF j = 0 THEN <<>>
  ELSE (IF j \in S THEN <<j>> ELSE <<>>) \o DescendingFrom(j - 1, S)

\* the rows with the status, newest first (ids grow with created_at)
getJobTimesByStatus(st) ==
  DescendingFrom(NumJobs, {j \in Jobs : status[j] = st})

\* the conditional update PENDING -> RUNNING answers the row exactly when
\* the row was PENDING; it is one atomic statement of the store
updateJobTimeToRunningIfPending(j) ==
  IF status[j] = "PENDING" THEN "job" ELSE "null"

filterJobsForCurrentTime(jobs, now) ==
  SelectSeq(jobs, LAMBDA j : filterAccepts(now, ExecTimeOf(j)))

(***************************************************************************)
(* Decisions of executePendingJobs, executeJob and processJobExecution.    *)
(***************************************************************************)
\* where a throw inside executePendingJobs lands: its whole body is inside
\* the try, so every step lands in the catch that logs and returns
ThrowInRunGoesTo_listOutside(step) ==
  IF step = "list" THEN "escaped" ELSE "runCatch"
ThrowInRunGoesTo_loopGoesOn(step) ==
  IF step = "executeJob" THEN "returned" ELSE "runCatch"
ThrowInRunGoesTo(step) == "runCatch"

\* if (!updatedJob) return null
SkipsJob_never(updatedJob) == FALSE
SkipsJob(updatedJob) == updatedJob = "null"

\* if (!this.whatsappService.isConnected()) throw
ChannelCheckThrows_never(connected) == FALSE
ChannelCheckThrows(connected) == ~connected

\* getDefaultTemplate: the text of a fixed category, else the generic text
getDefaultTemplate(type) ==
  IF type \in Categories THEN "default" ELSE "generic"

\* getTemplateForJob throws when the cache has no text and the storage call
\* throws or answers a row whose text is blank
ResolveThrows_blankFallsBack(cached, row) ==
  cached = "absent" /\ row = "throws"
ResolveThrows(cached, row) ==
  cached = "absent" /\ row \in {"throws", "blank"}

\* getTemplateForJob calls storage when the cache has no text for the type
IssuesFetch(cached) == cached = "absent"

\* the cache entry after a resolution that returned
CacheAfter(cached, row, type) ==
  IF cached # "absent" THEN cached
  ELSE IF row = "text" THEN "stored"
  ELSE getDefaultTemplate(type)

\* the catch of the recipient loop has no rethrow: no throw of
\* sendMessageToUser leaves the loop
RecipientThrowEscapes_sendFail(o) == o = "sendFail"
RecipientThrowEscapes(o) == FALSE

\* the sent flag handed to updateJobTimeUsers after a recipient
SentFlagAfter_always(o) == TRUE
SentFlagAfter(o) == o = "ok"

\* updateJobTimeUsers: the users of the row with the update merged into the
\* user whose id is userId (the recipients of a job have distinct ids)
updateJobTimeUsers(users, k, flag) == [users EXCEPT ![k] = flag]

(***************************************************************************)
(* The execution loop, one action per step between two awaits.             *)
(***************************************************************************)
\* what a call on the job_time table can do: answer (TRUE) or throw
JobTableAnswers == IF jobStore = "faulty" THEN BOOLEAN ELSE {TRUE}

\* job.users[k].sent of a row before any run
InitialSent == [k \in UserIdx |-> k % 2 = 0]

SchedFields ==
  /\ clock = ClockStart
  /\ status = [j \in Jobs |-> "PENDING"]
  /\ executedAt = [j \in Jobs |-> FALSE]
  /\ sent = [j \in Jobs |-> InitialSent]
  /\ nUsers = [j \in Jobs |-> UsersOf(j)]
  /\ pc = [r \in Runs |-> "idle"]
  /\ queue = [r \in Runs |-> <<>>]
  /\ cur = [r \in Runs |-> 0]
  /\ idx = [r \in Runs |-> 0]
  /\ results = [r \in Runs |-> <<>>]
  /\ pauses = [r \in Runs |-> <<>>]
  /\ claimRes = [r \in Runs |-> "none"]
  /\ cause = [r \in Runs |-> "none"]
  /\ work = [r \in Runs |-> {}]
  /\ wrote = [r \in Runs |-> "none"]
  /\ failedWrites = [r \in Runs |-> {}]
  /\ sentFailed = [r \in Runs |-> {}]
  /\ wins = [j \in Jobs |-> 0]
  /\ response = <<>>

SchedInit ==
  /\ SchedFields
  /\ templateCache = [c \in JobTypes |-> "absent"]

jobVars == <<status, executedAt, sent, nUsers, wins>>
callVars == <<cur, idx, results, pauses, claimRes, cause, work, wrote, failedWrites,
              sentFailed>>

\* the variables of one executeJob call, as they are before the call
CallReset(r) ==
  /\ cur' = [cur EXCEPT ![r] = 0]
  /\ idx' = [idx EXCEPT ![r] = 0]
  /\ results' = [results EXCEPT ![r] = <<>>]
  /\ pauses' = [pauses EXCEPT ![r] = <<>>]
  /\ claimRes' = [claimRes EXCEPT ![r] = "none"]
  /\ cause' = [cause EXCEPT ![r] = "none"]
  /\ work' = [work EXCEPT ![r] = {}]
  /\ wrote' = [wrote EXCEPT ![r] = "none"]
  /\ failedWrites' = [failedWrites EXCEPT ![r] = {}]
  /\ sentFailed' = [sentFailed EXCEPT ![r] = {}]

\* what POST /job-scheduler/execute answers once executeJobsManually has
\* returned; what the run did is not handed to it
executeJobsManuallyResponse(ran) ==
  [success |-> TRUE, message |-> "Jobs ejecutados exitosamente"]

\* a run of executePendingJobs returns to the trigger that called it
RunReturns(r) ==
  response' = IF r = "manual"
              THEN <<executeJobsManuallyResponse(
                       [wrote |-> wrote[r], results |-> results[r]])>>
              ELSE response

\* executeJob returned to the for loop of executePendingJobs
ReturnToLoop(r) == pc' = [pc EXCEPT ![r] = "returned"]

\* a throw that enters the catch of executeJob
ThrowInExecuteJob(r, why) ==
  /\ cause' = [cause EXCEPT ![r] = why]
  /\ pc' = [pc EXCEPT ![r] = "catch"]

\* time passes
AdvanceClock ==
  /\ clock < ClockEnd
  /\ clock' = clock + CronMinutes * Res
  /\ UNCHANGED <<jobStore, jobVars, callVars, templateCache, pc, queue>>
  /\ UNCHANGED response
  /\ UNCHANGED besidesSched

\* executePendingJobs up to its for loop: now, the PENDING rows, the filter
executePendingJobs(r) ==
  /\ pc[r] = "idle"
  /\ \E answered \in JobTableAnswers :
       IF ~answered
       THEN /\ pc' = [pc EXCEPT ![r] = ThrowInRunGoesTo("list")]
            /\ queue' = [queue EXCEPT ![r] = <<>>]
            /\ UNCHANGED response
       ELSE LET pendingJobs == getJobTimesByStatus("PENDING")
                jobsToExecute == filterJobsForCurrentTime(pendingJobs, clock)
            IN /\ queue' = [queue EXCEPT ![r] = jobsToExecute]
               /\ pc' = [pc EXCEPT ![r] =
                           IF jobsToExecute = <<>> THEN "idle" ELSE "claim"]
               /\ IF jobsToExecute = <<>> THEN RunReturns(r)
                  ELSE UNCHANGED response
  /\ UNCHANGED <<jobStore, clock, jobVars, callVars, templateCache>>
  /\ UNCHANGED besidesSched

\* executeJob: the claim call and the test of what it answered
executeJobClaim(r) ==
  /\ pc[r] = "claim"
  /\ LET j == Head(queue[r]) IN
     /\ cur' = [cur EXCEPT ![r] = j]
     /\ \E answered \in JobTableAnswers :
          IF ~answered
          THEN /\ claimRes' = [claimRes EXCEPT ![r] = "threw"]
               /\ ThrowInExecuteJob(r, "claim")
               /\ UNCHANGED <<status, wins>>
          ELSE LET updatedJob == updateJobTimeToRunningIfPending(j) IN
               /\ claimRes' = [claimRes EXCEPT ![r] = updatedJob]
               /\ status' = [status EXCEPT ![j] =
                               IF updatedJob = "job" THEN "RUNNING" ELSE @]
               /\ wins' = [wins EXCEPT ![j] =
                             IF updatedJob = "job" THEN @ + 1 ELSE @]
               /\ IF SkipsJob(updatedJob)
                  THEN ReturnToLoop(r)
                  ELSE pc' = [pc EXCEPT ![r] = "channel"]
               /\ UNCHANGED cause
  /\ UNCHANGED <<jobStore, clock, executedAt, sent, nUsers, templateCache>>
  /\ UNCHANGED <<queue, idx, results, pauses, work, wrote, failedWrites,
                 sentFailed>>
  /\ UNCHANGED response
  /\ UNCHANGED besidesSched

\* executeJob: the channel check, and processJobExecution up to its first
\* await (a job without users returns at once)
executeJobChannel(r) ==
  /\ pc[r] = "channel"
  /\ \E connected \in BOOLEAN :
       /\ work' = [work EXCEPT ![r] =
                     @ \cup {IF connected THEN "channelUp" ELSE "channelDown"}]
       /\ IF ChannelCheckThrows(connected)
          THEN ThrowInExecuteJob(r, "channel")
          ELSE /\ pc' = [pc EXCEPT ![r] =
                           IF nUsers[cur[r]] = 0 THEN "finish" ELSE "template"]
               /\ UNCHANGED cause
  /\ UNCHANGED <<jobStore, clock, jobVars, templateCache, queue>>
  /\ UNCHANGED <<cur, idx, results, pauses, claimRes, wrote, failedWrites,
                 sentFailed>>
  /\ UNCHANGED response
  /\ UNCHANGED besidesSched

\* processJobExecution: the type test and getTemplateForJob
resolveTemplate(r) ==
  /\ pc[r] = "template"
  /\ \E typed \in BOOLEAN, row \in StorageRows :
       LET type == JobTypeOf(cur[r])
           cached == templateCache[type]
       IN IF ~typed
          THEN /\ ThrowInExecuteJob(r, "type")
               /\ UNCHANGED <<work, templateCache, idx>>
          ELSE /\ work' = [work EXCEPT ![r] =
                             @ \cup {"template"}
                               \cup (IF IssuesFetch(cached)
                                     THEN {"storage", row} ELSE {})]
               /\ IF ResolveThrows(cached, row)
                  THEN /\ ThrowInExecuteJob(r, "template")
                       /\ UNCHANGED <<templateCache, idx>>
                  ELSE /\ templateCache' =
                            [templateCache EXCEPT ![type] =
                               CacheAfter(cached, row, type)]
                       /\ idx' = [idx EXCEPT ![r] = 1]
                       /\ pc' = [pc EXCEPT ![r] = "recipient"]
                       /\ UNCHANGED cause
  /\ UNCHANGED <<jobStore, clock, jobVars, queue>>
  /\ UNCHANGED <<cur, results, pauses, claimRes, wrote, failedWrites,
                 sentFailed>>
  /\ UNCHANGED response
  /\ UNCHANGED besidesSched

\* the delay at the end of one turn of the recipient loop: delay(1500) is
\* the last statement of the try, so a turn that went to the catch has none
RecipientDelayMs == 1500
delayAfter(o) == IF o = "ok" THEN RecipientDelayMs ELSE 0

\* one turn of the recipient loop: sendMessageToUser, the entry of results,
\* the write of the sent flag (whose own throw is logged and dropped)
processRecipient(r) ==
  /\ pc[r] = "recipient"
  /\ LET j == cur[r]
         k == idx[r]
     IN \E o \in DeliveryOutcomes, written \in JobTableAnswers :
          /\ work' = [work EXCEPT ![r] =
                        @ \cup {"fetch"}
                          \cup (IF SendsTo(o) THEN {"send"} ELSE {})
                          \cup (IF o # "ok" /\ RecipientThrowEscapes(o)
                                THEN {} ELSE {"sentWrite"})]
          /\ IF o # "ok" /\ RecipientThrowEscapes(o)
             THEN /\ ThrowInExecuteJob(r, "recipient")
                  /\ UNCHANGED <<results, pauses, sent, sentFailed, idx>>
             ELSE /\ results' = [results EXCEPT ![r] = Append(@, o = "ok")]
                  /\ pauses' = [pauses EXCEPT ![r] = Append(@, delayAfter(o))]
                  /\ IF written
                     THEN /\ sent' = [sent EXCEPT ![j] =
                                 updateJobTimeUsers(@, k, SentFlagAfter(o))]
                          /\ UNCHANGED sentFailed
                     ELSE /\ sentFailed' =
                                 [sentFailed EXCEPT ![r] = @ \cup {k}]
                          /\ UNCHANGED sent
                  /\ idx' = [idx EXCEPT ![r] = k + 1]
                  /\ pc' = [pc EXCEPT ![r] =
                              IF k < nUsers[j] THEN "recipient" ELSE "finish"]
                  /\ UNCHANGED cause
  /\ UNCHANGED <<jobStore, clock, status, executedAt, nUsers, wins>>
  /\ UNCHANGED <<templateCache, queue, cur, claimRes, wrote>>
  /\ UNCHANGED failedWrites
  /\ UNCHANGED response
  /\ UNCHANGED besidesSched

\* executeJob: the FINISHED write, then the return to the for loop
executeJobFinish(r) ==
  /\ pc[r] = "finish"
  /\ \E written \in JobTableAnswers :
       IF written
       THEN /\ status' = [status EXCEPT ![cur[r]] = "FINISHED"]
            /\ executedAt' = [executedAt EXCEPT ![cur[r]] = TRUE]
            /\ wrote' = [wrote EXCEPT ![r] = "FINISHED"]
            /\ ReturnToLoop(r)
            /\ UNCHANGED <<cause, failedWrites>>
       ELSE /\ failedWrites' = [failedWrites EXCEPT ![r] = @ \cup {"finish"}]
            /\ ThrowInExecuteJob(r, "finishWrite")
            /\ UNCHANGED <<status, executedAt, wrote>>
  /\ UNCHANGED <<jobStore, clock, sent, nUsers, wins, templateCache>>
  /\ UNCHANGED queue
  /\ UNCHANGED <<cur, idx, results, pauses, claimRes, work, sentFailed>>
  /\ UNCHANGED response
  /\ UNCHANGED besidesSched

\* the catch of executeJob: the ERROR write, then the rethrow; a throw of
\* the write itself leaves executeJob in place of the first one
executeJobCatch(r) ==
  /\ pc[r] = "catch"
  /\ \E written \in JobTableAnswers :
       IF written
       THEN /\ status' = [status EXCEPT ![cur[r]] = "ERROR"]
            /\ executedAt' = [executedAt EXCEPT ![cur[r]] = TRUE]
            /\ wrote' = [wrote EXCEPT ![r] = "ERROR"]
            /\ UNCHANGED failedWrites
       ELSE /\ failedWrites' = [failedWrites EXCEPT ![r] = @ \cup {"error"}]
            /\ UNCHANGED <<status, executedAt, wrote>>
  /\ pc' = [pc EXCEPT ![r] = ThrowInRunGoesTo("executeJob")]
  /\ UNCHANGED <<jobStore, clock, sent, nUsers, wins, templateCache>>
  /\ UNCHANGED <<queue, cur, idx, results, pauses, claimRes, cause, work,
                 sentFailed>>
  /\ UNCHANGED response
  /\ UNCHANGED besidesSched

\* the for loop of executePendingJobs after an executeJob that returned:
\* the next job, or the end of the run
forLoopNext(r) ==
  /\ pc[r] = "returned"
  /\ queue' = [queue EXCEPT ![r] = Tail(@)]
  /\ pc' = [pc EXCEPT ![r] = IF Len(queue[r]) > 1 THEN "claim" ELSE "idle"]
  /\ CallReset(r)
  /\ UNCHANGED <<jobStore, clock, jobVars, templateCache>>
  /\ IF Len(queue[r]) > 1 THEN UNCHANGED response ELSE RunReturns(r)
  /\ UNCHANGED besidesSched

\* the catch of executePendingJobs: log, and return normally
executePendingJobsCatch(r) ==
  /\ pc[r] = "runCatch"
  /\ queue' = [queue EXCEPT ![r] = <<>>]
  /\ pc' = [pc EXCEPT ![r] = "idle"]
  /\ CallReset(r)
  /\ UNCHANGED <<jobStore, clock, jobVars, templateCache>>
  /\ RunReturns(r)
  /\ UNCHANGED besidesSched

(***************************************************************************)
(* The selection of one job row: the PENDING listing, then the filter.     *)
(***************************************************************************)
\* minutes of now covered after each starting point
FilterSpan == 12
\* how far, in minutes, execution_time lies ahead of or behind now
MaxAhead == 5
MaxBehind == 62

\* midnight between January 31st and February 1st, and 10:00 of that day
FilterMidnight == 31 * 1440 * Res
FilterMorning == FilterMidnight + 600 * Res
FilterNows ==
  {FilterMidnight + d : d \in 0..(FilterSpan * Res)}
    \cup {FilterMorning + d : d \in 0..(FilterSpan * Res)}
FilterDiffs == (0 - MaxAhead * Res)..(MaxBehind * Res)

FilterIdle ==
  /\ fNow = 0
  /\ fJob = [status |-> "PENDING", execution_time |-> NoTime]
  /\ fSelected = "unset"

FilterInit ==
  /\ fNow \in FilterNows
  /\ \E st \in Statuses :
       \E t \in {fNow - d : d \in FilterDiffs} \cup {NoTime} :
         fJob = [status |-> st, execution_time |-> t]
  /\ fSelected = "unset"

\* a run over a table that holds the one row fJob
selectOne ==
  /\ fSelected = "unset"
  /\ fSelected' = IF /\ fJob.status = "PENDING"
                     /\ filterAccepts(fNow, fJob.execution_time)
                  THEN "yes" ELSE "no"
  /\ UNCHANGED <<fNow, fJob>>
  /\ UNCHANGED besidesFilter

(***************************************************************************)
(* The delivery gateway (WhatsappService): the circuit breaker, the rate   *)
(* limiter, the single-document send and the multi-document send.          *)
(***************************************************************************)
\* milliseconds between two readings of the gateway's clock, and readings
TickMs == 100000
MaxGwTicks == 4
\* documents of one multi-document delivery
MaxFiles == 2

maxFailures == 5
CooldownMs == 5 * 60 * 1000
maxMessagesPerMinute == 20
RateWindowMs == 60000
RateMarginMs == 1000
MAX_FILE_SIZE == 16 * 1024 * 1024
maxRetries == 3

\* who calls the gateway: the recipient loop, which awaits each delivery
\* before it starts the next
Callers == {"scheduler"}
\* archive.length of the document of a single-document delivery
ArchiveLengths == {MAX_FILE_SIZE, MAX_FILE_SIZE + 1}

CeilDiv(a, b) == (a + b - 1) \div b

\* the three fields of the circuit breaker as one value
Breaker ==
  [failures |-> consecutiveFailures, open |-> circuitOpen,
   until |-> circuitOpenUntil]
SetBreaker(b) ==
  /\ consecutiveFailures' = b.failures
  /\ circuitOpen' = b.open
  /\ circuitOpenUntil' = b.until

\* checkCircuitBreaker throws while the circuit is open and cooling down
BreakerRefuses(b, now) == b.open /\ b.until # NoTime /\ now < b.until
circuitWaitTime(b, now) == CeilDiv(b.until - now, 1000)
\* checkCircuitBreaker when it returns: an open circuit is closed
checkCircuitBreaker_keepsCount(b) ==
  IF b.open THEN [b EXCEPT !.open = FALSE, !.until = NoTime] ELSE b
checkCircuitBreaker(b) ==
  IF b.open THEN [failures |-> 0, open |-> FALSE, until |-> NoTime] ELSE b

recordSuccess(b) ==
  IF b.open THEN [failures |-> 0, open |-> FALSE, until |-> NoTime]
  ELSE [b EXCEPT !.failures = 0]

recordFailure_keepsCount(b, now) == b
recordFailure(b, now) ==
  LET n == b.failures + 1
  IN IF n >= maxFailures
     THEN [failures |-> n, open |-> TRUE, until |-> now + CooldownMs]
     ELSE [b EXCEPT !.failures = n]

\* checkRateLimit: the timestamps newer than a given instant
NewerThan(stamps, t) ==
  LET Newer(ts) == ts > t IN SelectSeq(stamps, Newer)
rateWaitTime(stamps, now) == RateWindowMs - (now - stamps[1]) + RateMarginMs
\* the instants of the last minute at which a call left checkRateLimit,
\* the one that leaves it now included
Admit(admitted, now) == Append(NewerThan(admitted, now - RateWindowMs), now)

\* a call of the gateway: where it stands, the attempt of the retry loop,
\* the documents left, the socket.sendMessage calls made, what the caller
\* got, the wait the refusal named, whether the breaker was cooling down
\* when the call came, whether a document's error was swallowed, whether
\* checkRateLimit slept, whether a send call carried a document above
\* MAX_FILE_SIZE, and the locals of a sleeping checkRateLimit
NewCall ==
  [pc |-> "idle", attempt |-> 0, left |-> 0, sendCalls |-> 0,
   result |-> "none", retryIn |-> 0, cooling |-> FALSE, dropped |-> FALSE,
   slept |-> FALSE, bigSent |-> FALSE,
   wake |-> 0, now |-> 0, len |-> 0]
Done(c, res) ==
  [c EXCEPT !.pc = "idle", !.result = res, !.attempt = 0, !.left = 0,
            !.wake = 0, !.now = 0, !.len = 0]
OneMoreFailure(s) == IF s < maxFailures THEN s + 1 ELSE s

\* what a send call and a connection check can answer, and the lengths a
\* document can have
ChannelAnswers == IF channel = "faulty" THEN BOOLEAN ELSE {TRUE}
DocumentLengths ==
  IF channel = "faulty" THEN ArchiveLengths ELSE {MAX_FILE_SIZE}

GwFields ==
  /\ gwNow = TickMs
  /\ consecutiveFailures = 0
  /\ circuitOpen = FALSE
  /\ circuitOpenUntil = NoTime
  /\ messageTimestamps = <<>>
  /\ calls = [d \in Callers |-> NewCall]
  /\ failedInARow = 0
  /\ admittedAt = <<>>

GwInit == channel = "faulty" /\ GwFields

\* the timer of a sleeping checkRateLimit fires once its delay has passed
TimerFires_never(now, wake) == FALSE
TimerFires(now, wake) == now >= wake

\* time goes on up to the last reading, and on while a timer is set;
\* deliveries are asked for up to the last reading
LastReading == (1 + MaxGwTicks) * TickMs

AdvanceGwClock ==
  /\ \/ gwNow < LastReading
     \/ \E d \in Callers :
          calls[d].pc = "throttled" /\ gwNow < calls[d].wake
  /\ gwNow' = gwNow + TickMs
  /\ admittedAt' = NewerThan(admittedAt, gwNow' - RateWindowMs)
  /\ UNCHANGED <<channel, consecutiveFailures, circuitOpen,
                 circuitOpenUntil, messageTimestamps, calls, failedInARow>>
  /\ UNCHANGED besidesGateway

\* sendMessageVep once checkRateLimit has returned: the size check, then
\* the retry loop is entered
AfterRateLimit(d, c, b, s, len) ==
  IF len > MAX_FILE_SIZE
  THEN /\ SetBreaker(recordFailure(b, gwNow))
       /\ calls' = [calls EXCEPT ![d] = Done(c, "oversize")]
       /\ failedInARow' = OneMoreFailure(s)
  ELSE /\ SetBreaker(b)
       /\ calls' = [calls EXCEPT ![d] =
                      [c EXCEPT !.pc = "attempt", !.attempt = 1,
                                !.wake = 0, !.now = 0, !.len = len]]
       /\ failedInARow' = s

\* sendMessageVep up to its first await that waits
sendMessageVep(d) ==
  /\ calls[d].pc = "idle"
  /\ gwNow <= LastReading
  /\ \E len \in DocumentLengths :
       LET refused == BreakerRefuses(Breaker, gwNow)
           c == [NewCall EXCEPT !.cooling = refused]
           b == checkCircuitBreaker(Breaker)
           s == IF circuitOpen THEN 0 ELSE failedInARow
           recent == NewerThan(messageTimestamps, gwNow - RateWindowMs)
       IN IF refused
          THEN /\ calls' = [calls EXCEPT ![d] =
                   [c EXCEPT !.result = "circuitOpen",
                             !.retryIn = circuitWaitTime(Breaker, gwNow)]]
               /\ UNCHANGED <<consecutiveFailures, circuitOpen,
                              circuitOpenUntil, messageTimestamps,
                              failedInARow, admittedAt>>
          ELSE IF Len(recent) >= maxMessagesPerMinute
          THEN /\ messageTimestamps' = recent
               /\ SetBreaker(b)
               /\ failedInARow' = s
               /\ calls' = [calls EXCEPT ![d] =
                   [c EXCEPT !.pc = "throttled", !.now = gwNow,
                             !.wake = gwNow + rateWaitTime(recent, gwNow),
                             !.len = len]]
               /\ UNCHANGED admittedAt
          ELSE /\ messageTimestamps' = Append(recent, gwNow)
               /\ admittedAt' = Admit(admittedAt, gwNow)
               /\ AfterRateLimit(d, c, b, s, len)
  /\ UNCHANGED <<channel, gwNow>>
  /\ UNCHANGED besidesGateway

\* the sleep of checkRateLimit is over
rateLimitWake(d) ==
  /\ calls[d].pc = "throttled"
  /\ TimerFires(gwNow, calls[d].wake)
  /\ messageTimestamps' =
       Append(NewerThan(messageTimestamps, calls[d].now), calls[d].now)
  /\ admittedAt' = Admit(admittedAt, gwNow)
  /\ AfterRateLimit(d, [calls[d] EXCEPT !.slept = TRUE], Breaker,
                    failedInARow, calls[d].len)
  /\ UNCHANGED <<channel, gwNow>>
  /\ UNCHANGED besidesGateway

\* one attempt of the retry loop: the connection check, the send, the catch
sendAttempt(d) ==
  /\ calls[d].pc = "attempt"
  /\ \E connected \in ChannelAnswers, delivered \in ChannelAnswers :
       LET c == [calls[d] EXCEPT
                   !.sendCalls = @ + (IF connected THEN 1 ELSE 0),
                   !.bigSent = @ \/ (connected /\ calls[d].len > MAX_FILE_SIZE)]
       IN IF connected /\ delivered
          THEN /\ SetBreaker(recordSuccess(Breaker))
               /\ calls' = [calls EXCEPT ![d] = Done(c, "sent")]
               /\ failedInARow' = 0
          ELSE IF c.attempt = maxRetries
          THEN /\ SetBreaker(recordFailure(Breaker, gwNow))
               /\ calls' = [calls EXCEPT ![d] = Done(c, "failed")]
               /\ failedInARow' = OneMoreFailure(failedInARow)
          ELSE /\ calls' = [calls EXCEPT ![d] =
                              [c EXCEPT !.attempt = @ + 1]]
               /\ UNCHANGED <<consecutiveFailures, circuitOpen,
                              circuitOpenUntil, failedInARow>>
  /\ UNCHANGED <<channel, gwNow, messageTimestamps, admittedAt>>
  /\ UNCHANGED besidesGateway

\* sendMultipleDocuments, sendMultipleFiles up to its first send
sendMultipleDocuments(d) ==
  /\ calls[d].pc = "idle"
  /\ gwNow <= LastReading
  /\ \E n \in 2..MaxFiles, hasText \in BOOLEAN :
       calls' = [calls EXCEPT ![d] =
         [NewCall EXCEPT !.cooling = BreakerRefuses(Breaker, gwNow),
                         !.pc = IF hasText THEN "text" ELSE "files",
                         !.left = n]]
  /\ UNCHANGED <<channel, gwNow, consecutiveFailures, circuitOpen,
                 circuitOpenUntil,
                 messageTimestamps, failedInARow, admittedAt>>
  /\ UNCHANGED besidesGateway

\* the text of a multi-document delivery: its throw leaves sendMultipleFiles
sendMultipleText(d) ==
  /\ calls[d].pc = "text"
  /\ \E delivered \in ChannelAnswers :
       LET c == [calls[d] EXCEPT !.sendCalls = @ + 1]
       IN IF delivered
          THEN /\ calls' = [calls EXCEPT ![d] = [c EXCEPT !.pc = "files"]]
               /\ UNCHANGED failedInARow
          ELSE /\ calls' = [calls EXCEPT ![d] = Done(c, "failed")]
               /\ failedInARow' = OneMoreFailure(failedInARow)
  /\ UNCHANGED <<channel, gwNow, consecutiveFailures, circuitOpen,
                 circuitOpenUntil,
                 messageTimestamps, admittedAt>>
  /\ UNCHANGED besidesGateway

\* one document of a multi-document delivery: its throw is logged and the
\* loop goes on; after the last one sendMultipleFiles returns
sendMultipleFile(d) ==
  /\ calls[d].pc = "files"
  /\ \E delivered \in ChannelAnswers, len \in DocumentLengths :
       LET c == [calls[d] EXCEPT !.sendCalls = @ + 1, !.left = @ - 1,
                                 !.dropped = @ \/ ~delivered,
                                 !.bigSent = @ \/ len > MAX_FILE_SIZE]
       IN IF c.left = 0
          THEN /\ calls' = [calls EXCEPT ![d] = Done(c, "sent")]
               /\ failedInARow' = IF c.dropped THEN failedInARow ELSE 0
          ELSE /\ calls' = [calls EXCEPT ![d] = c]
               /\ UNCHANGED failedInARow
  /\ UNCHANGED <<channel, gwNow, consecutiveFailures, circuitOpen,
                 circuitOpenUntil,
                 messageTimestamps, admittedAt>>
  /\ UNCHANGED besidesGateway

(***************************************************************************)
(* Template resolution on its own: getTemplateForJob called again and      *)
(* again for one category.                                                 *)
(***************************************************************************)
\* resolutions in a row
MaxResolutions == 2

CacheEntries == {"absent", "stored", "default", "generic"}
\* the entries the cache can hold for a type: none, the stored text, or what
\* getDefaultTemplate answers for the type
EntriesOf(type) == {"absent", "stored", getDefaultTemplate(type)}
StoredRows == StorageRows \ {"throws"}

TplIdle ==
  /\ tplType = "monotributo"
  /\ tplRow = "null"
  /\ tplCached0 = "absent"
  /\ tplOutcomes = <<>>
  /\ tplFetched = <<>>

TplInit ==
  /\ tplType \in JobTypes
  /\ tplRow \in StoredRows
  /\ tplCached0 = templateCache[tplType]
  /\ tplOutcomes = <<>>
  /\ tplFetched = <<>>

\* one call of getTemplateForJob: the storage call answers the row or throws
getTemplateForJob ==
  /\ Len(tplOutcomes) < MaxResolutions
  /\ \E answers \in BOOLEAN :
       LET cached == templateCache[tplType]
           row == IF answers THEN tplRow ELSE "throws"
       IN /\ tplFetched' = Append(tplFetched, IssuesFetch(cached))
          /\ IF ResolveThrows(cached, row)
             THEN /\ tplOutcomes' = Append(tplOutcomes, "throws")
                  /\ UNCHANGED templateCache
             ELSE /\ tplOutcomes' =
                       Append(tplOutcomes, CacheAfter(cached, row, tplType))
                  /\ templateCache' =
                       [templateCache EXCEPT ![tplType] =
                          CacheAfter(cached, row, tplType)]
  /\ UNCHANGED <<tplType, tplRow, tplCached0>>
  /\ UNCHANGED besidesTemplate

(***************************************************************************)
(* The documents of one recipient (sendMessageToUser up to the send).      *)
(***************************************************************************)
\* linked recipients of one recipient
MaxJoined == 2
TickLead == 4
TickTail == 3

TaxIds == {"20-1-1", "20-2-2"}
NoCuit == "none"
RECURSIVE SeqsUpTo(_, _)
SeqsUpTo(S, n) ==
  IF n = 0 THEN {<<>>}
  ELSE LET shorter == SeqsUpTo(S, n - 1)
       IN shorter \cup {Append(q, x) : q \in shorter, x \in S}

DocIdle ==
  /\ docCuit = NoCuit
  /\ docJoined = <<>>
  /\ docPc = "primary"
  /\ docIdx = 0
  /\ docFetches = <<>>
  /\ archives = <<>>
  /\ docOwners = <<>>
  /\ docSends = <<>>
  /\ docRecorded = FALSE

DocInit ==
  /\ docCuit \in TaxIds \cup {NoCuit}
  /\ docJoined \in SeqsUpTo(TaxIds, MaxJoined)
  /\ docPc = "primary"
  /\ docIdx = 0
  /\ docFetches = <<>>
  /\ archives = <<>>
  /\ docOwners = <<>>
  /\ docSends = <<>>
  /\ docRecorded = FALSE

\* a linked recipient's document is asked for unless its tax id is the
\* recipient's own
FetchesJoined(cuit, joinedCuit) == joinedCuit # cuit

\* where sendMessageToUser goes after the documents
AfterDocuments_neverFails(found) ==
  IF Len(found) <= 1 THEN "single" ELSE "multi"
AfterDocuments(found) ==
  IF Len(found) = 0 THEN "noDocs"
  ELSE IF Len(found) = 1 THEN "single" ELSE "multi"
AfterJoined(k, found) ==
  IF k > Len(docJoined) THEN AfterDocuments(found) ELSE "joined"

\* the recipient's own document: getFileVepsByCuit answers it or throws
fetchPrimary ==
  /\ docPc = "primary"
  /\ \E found \in BOOLEAN :
       LET asked == docCuit # NoCuit
           got == IF asked /\ found THEN <<docCuit>> ELSE <<>>
       IN /\ docFetches' = IF asked THEN <<docCuit>> ELSE <<>>
          /\ archives' = got
          /\ docOwners' = IF asked /\ found THEN <<0>> ELSE <<>>
          /\ docIdx' = 1
          /\ docPc' = AfterJoined(1, got)
  /\ UNCHANGED <<docCuit, docJoined, docSends, docRecorded>>
  /\ UNCHANGED besidesDocs

\* one turn of the loop over joined_users
fetchJoined ==
  /\ docPc = "joined"
  /\ \E found \in BOOLEAN :
       LET cuit == docJoined[docIdx]
           asked == FetchesJoined(docCuit, cuit)
           got == IF asked /\ found THEN Append(archives, cuit) ELSE archives
       IN /\ docFetches' =
               IF asked THEN Append(docFetches, cuit) ELSE docFetches
          /\ archives' = got
          /\ docOwners' = IF asked /\ found THEN Append(docOwners, docIdx)
                          ELSE docOwners
          /\ docIdx' = docIdx + 1
          /\ docPc' = AfterJoined(docIdx + 1, got)
  /\ UNCHANGED <<docCuit, docJoined, docSends, docRecorded>>
  /\ UNCHANGED besidesDocs

\* the pause of sendMultipleFiles after a document, in ms
FilePauseMs == 1000

\* a send call: what it carries, the position of the document in the list
\* handed over (0 for the text), whose name and tax id its filename is
\* built from (0 the recipient, k the k-th linked recipient), and whether
\* the channel took it
SendCall(what, position, named, ok) ==
  [what |-> what, position |-> position, named |-> named, ok |-> ok,
   ms |-> 0]
Pause(ms) ==
  [what |-> "pause", position |-> 0, named |-> 0, ok |-> TRUE, ms |-> ms]

\* the fileName sendMessageToUser gives the document at a position of the
\* list: vepFileName at the first, joined_users[index - 1] at the others
fileNameOf(position) == IF position = 1 THEN 0 ELSE position - 1

\* archives.length === 1: sendMessageVep with the text as caption under
\* vepFileName; it returns once a send call resolved and throws otherwise
\* (circuit open, oversize, no connection: no send call; three failed
\* attempts: the last one is kept here)
sendSingle ==
  /\ docPc = "single"
  /\ \E called \in BOOLEAN, ok \in BOOLEAN :
       /\ (ok => called)
       /\ docSends' = IF called
                      THEN <<SendCall("document with caption", 1, 0, ok)>>
                      ELSE <<>>
       /\ docPc' = IF ok THEN "returned" ELSE "threw"
  /\ UNCHANGED <<docCuit, docJoined, docIdx, docFetches, archives,
                 docOwners, docRecorded>>
  /\ UNCHANGED besidesDocs

\* sendMultipleFiles: the text first; its throw leaves the method
sendFilesText ==
  /\ docPc = "multi"
  /\ \E ok \in BOOLEAN :
       /\ docSends' = <<SendCall("text", 0, 0, ok)>>
       /\ docPc' = IF ok THEN "files" ELSE "threw"
  /\ docIdx' = 1
  /\ UNCHANGED <<docCuit, docJoined, docFetches, archives, docOwners,
                 docRecorded>>
  /\ UNCHANGED besidesDocs

\* one turn of the loop over the files: the send, then the pause; a throw
\* of the send goes to the catch, which logs it, and the loop goes on
sendFilesNext ==
  /\ docPc = "files"
  /\ \E ok \in BOOLEAN :
       LET call == SendCall("document", docIdx, fileNameOf(docIdx), ok)
       IN docSends' = IF ok
                      THEN docSends \o <<call, Pause(FilePauseMs)>>
                      ELSE Append(docSends, call)
  /\ docIdx' = docIdx + 1
  /\ docPc' = IF docIdx = Len(archives) THEN "returned" ELSE "files"
  /\ UNCHANGED <<docCuit, docJoined, docFetches, archives, docOwners,
                 docRecorded>>
  /\ UNCHANGED besidesDocs

\* the send returned: sendMessageToUser writes last_execution (a failure of
\* the write is logged) and returns, and processJobExecution pushes
\* success and writes sent: true
recordDelivered ==
  /\ docPc = "returned"
  /\ docRecorded' = TRUE
  /\ docPc' = "recorded"
  /\ UNCHANGED <<docCuit, docJoined, docIdx, docFetches, archives,
                 docOwners, docSends>>
  /\ UNCHANGED besidesDocs

(***************************************************************************)
(* The message of one recipient (generateMessage).                         *)
(***************************************************************************)
\* a need flag of a recipient row is true, false or null
FlagValues == {"true", "false", "null"}
Truthy(v) == v = "true"
Users ==
  [need_papers : FlagValues, need_z : FlagValues,
   need_compra : FlagValues, need_auditoria : FlagValues]
Templates == {"names the recipient", "names nobody"}

\* the text after the name check and replaceTemplateVariables
Substituted(template) ==
  IF template = "names the recipient" THEN <<"body">>
  ELSE <<"Hola <name>, ", "body">>

appendAdditionalMessages_zFirst(message, user) ==
  LET z == IF Truthy(user.need_z) THEN Append(message, "cierre Z")
           ELSE message
      papers == IF Truthy(user.need_papers)
                THEN Append(z, "papeles de ventas") ELSE z
      compra == IF Truthy(user.need_compra)
                THEN Append(papers, "compras") ELSE papers
  IN IF Truthy(user.need_auditoria)
     THEN Append(compra, "cierre de auditoria") ELSE compra
appendAdditionalMessages(message, user) ==
  LET papers == IF Truthy(user.need_papers)
                THEN Append(message, "papeles de ventas") ELSE message
      z == IF Truthy(user.need_z) THEN Append(papers, "cierre Z")
           ELSE papers
      compra == IF Truthy(user.need_compra)
                THEN Append(z, "compras") ELSE z
  IN IF Truthy(user.need_auditoria)
     THEN Append(compra, "cierre de auditoria") ELSE compra

MsgIdle ==
  /\ msgUser = [need_papers |-> "null", need_z |-> "null",
                need_compra |-> "null", need_auditoria |-> "null"]
  /\ msgTemplate = "names the recipient"
  /\ msgText = <<>>

MsgInit ==
  /\ msgUser \in Users
  /\ msgTemplate \in Templates
  /\ msgText = <<>>

generateMessage ==
  /\ msgText = <<>>
  /\ msgText' = appendAdditionalMessages(Substituted(msgTemplate), msgUser)
  /\ UNCHANGED <<msgUser, msgTemplate>>
  /\ UNCHANGED besidesMessage

(***************************************************************************)
(* Specifications.                                                         *)
(***************************************************************************)
\* the parts that stand still beside the execution loop, the filter and
\* the gateway
(***************************************************************************)
(* The cron decorator of onModuleInit: '*/5 * * * *' calls                 *)
(* executePendingJobs at second 0 of every minute divisible by five, and   *)
(* each call keeps the PENDING rows that filterJobsForCurrentTime accepts  *)
(* at that reading.  The part follows one PENDING row from a tick before   *)
(* its execution_time until the ticks are past the row's last hour.  The   *)
(* execution times lie around a midnight, so that every minute of a        *)
(* ten-minute bucket and the change of day are among them.                 *)
(***************************************************************************)
Midnight == 41 * 1440 * Res
TickStep == CronMinutes * Res
FirstTick == Midnight - TickLead * TickStep
ExecutionTimes == (FirstTick + 1)..(Midnight + TickTail * TickStep)

TickIdle ==
  /\ tickNow = FirstTick
  /\ tickJobTime = NoTime
  /\ tickSelectedAt = NoTime

\* the row exists, PENDING, when the first tick reads the clock, and its
\* execution_time is later than that reading
TickInit ==
  /\ tickNow = FirstTick
  /\ tickJobTime \in ExecutionTimes
  /\ tickSelectedAt = NoTime

\* a tick later than the row's last hour: none after it is looked at
PastLastHour(now, jobTime) == now > jobTime + StaleMinutes * Res

\* the next firing of the CronJob: executePendingJobs reads the clock and
\* selects the row if it is still PENDING and the filter accepts it
cronTick ==
  /\ tickJobTime # NoTime
  /\ ~PastLastHour(tickNow, tickJobTime)
  /\ tickNow' = tickNow + TickStep
  /\ tickSelectedAt' =
       IF tickSelectedAt = NoTime /\ filterAccepts(tickNow', tickJobTime)
       THEN tickNow'
       ELSE tickSelectedAt
  /\ UNCHANGED tickJobTime
  /\ UNCHANGED besidesTicks

OthersIdle == TplIdle /\ DocIdle /\ MsgIdle /\ TickIdle

Init ==
  jobStore = "faulty" /\ SchedInit /\ FilterIdle /\ GwInit /\ OthersIdle

Next ==
  \/ AdvanceClock
  \/ \E r \in Runs : executePendingJobs(r)
  \/ \E r \in Runs : executeJobClaim(r)
  \/ \E r \in Runs : executeJobChannel(r)
  \/ \E r \in Runs : resolveTemplate(r)
  \/ \E r \in Runs : processRecipient(r)
  \/ \E r \in Runs : executeJobFinish(r)
  \/ \E r \in Runs : executeJobCatch(r)
  \/ \E r \in Runs : forLoopNext(r)
  \/ \E r \in Runs : executePendingJobsCatch(r)

Spec == Init /\ [][Next]_vars

\* One run's steps between its start and its return: each is the continuation
\* of an awaited call, which the event loop runs once the call has answered.
RunStep(r) ==
  \/ executeJobClaim(r)
  \/ executeJobChannel(r)
  \/ resolveTemplate(r)
  \/ processRecipient(r)
  \/ executeJobFinish(r)
  \/ executeJobCatch(r)
  \/ forLoopNext(r)
  \/ executePendingJobsCatch(r)

\* The process keeps running: every awaited call answers and its continuation
\* runs, and the cron decorator keeps starting runs.
SpecLive ==
  /\ Spec
  /\ \A r \in Runs : WF_vars(RunStep(r))
  /\ WF_vars(executePendingJobs("cron"))

\* the execution loop over a job_time table whose calls all answer
InitReliable ==
  jobStore = "reliable" /\ SchedInit /\ FilterIdle /\ GwInit /\ OthersIdle

SpecReliable == InitReliable /\ [][Next]_vars

InitFilter ==
  jobStore = "reliable" /\ SchedInit /\ FilterInit /\ GwInit /\ OthersIdle

NextFilter == selectOne

SpecFilter == InitFilter /\ [][NextFilter]_vars

InitGateway ==
  jobStore = "reliable" /\ SchedInit /\ FilterIdle /\ GwInit /\ OthersIdle

NextGateway ==
  \/ AdvanceGwClock
  \/ \E d \in Callers : sendMessageVep(d)
  \/ \E d \in Callers : rateLimitWake(d)
  \/ \E d \in Callers : sendAttempt(d)
  \/ \E d \in Callers : sendMultipleDocuments(d)
  \/ \E d \in Callers : sendMultipleText(d)
  \/ \E d \in Callers : sendMultipleFile(d)

SpecGateway == InitGateway /\ [][NextGateway]_vars

\* the single-document path over a channel that delivers, in a process that
\* keeps running: time goes on and the timer of a sleeping call fires
InitRateLimit ==
  /\ jobStore = "reliable" /\ SchedInit /\ FilterIdle /\ OthersIdle
  /\ channel = "reliable" /\ GwFields

NextRateLimit ==
  \/ AdvanceGwClock
  \/ \E d \in Callers : sendMessageVep(d)
  \/ \E d \in Callers : rateLimitWake(d)
  \/ \E d \in Callers : sendAttempt(d)

SpecRateLimit ==
  /\ InitRateLimit /\ [][NextRateLimit]_vars
  /\ WF_vars(AdvanceGwClock)
  /\ \A d \in Callers : WF_vars(rateLimitWake(d))

\* template resolutions from any state of the cache
InitTemplate ==
  /\ jobStore = "reliable" /\ SchedFields /\ FilterIdle /\ GwInit
  /\ DocIdle /\ MsgIdle /\ TickIdle
  /\ templateCache \in [JobTypes -> CacheEntries]
  /\ \A c \in JobTypes : templateCache[c] \in EntriesOf(c)
  /\ TplInit

NextTemplate == getTemplateForJob

SpecTemplate == InitTemplate /\ [][NextTemplate]_vars

\* the documents of one recipient
InitDocs ==
  /\ jobStore = "reliable" /\ SchedInit /\ FilterIdle /\ GwInit
  /\ TplIdle /\ MsgIdle /\ TickIdle
  /\ DocInit

NextDocs ==
  \/ fetchPrimary
  \/ fetchJoined
  \/ sendSingle
  \/ sendFilesText
  \/ sendFilesNext
  \/ recordDelivered

SpecDocs == InitDocs /\ [][NextDocs]_vars

\* the message of one recipient
InitMessage ==
  /\ jobStore = "reliable" /\ SchedInit /\ FilterIdle /\ GwInit
  /\ TplIdle /\ DocIdle /\ TickIdle
  /\ MsgInit

NextMessage == generateMessage

SpecMessage == InitMessage /\ [][NextMessage]_vars

\* the three methods of the circuit breaker called in any order, as the
\* send paths and any later caller inside WhatsappService may call them
MaxExtraFailures == 6

breakerCheck ==
  /\ ~BreakerRefuses(Breaker, gwNow)
  /\ SetBreaker(checkCircuitBreaker(Breaker))
  /\ UNCHANGED <<channel, gwNow, messageTimestamps, calls, failedInARow,
                 admittedAt>>
  /\ UNCHANGED besidesGateway

breakerSuccess ==
  /\ SetBreaker(recordSuccess(Breaker))
  /\ UNCHANGED <<channel, gwNow, messageTimestamps, calls, failedInARow,
                 admittedAt>>
  /\ UNCHANGED besidesGateway

breakerFailure ==
  /\ consecutiveFailures < maxFailures + MaxExtraFailures
  /\ SetBreaker(recordFailure(Breaker, gwNow))
  /\ UNCHANGED <<channel, gwNow, messageTimestamps, calls, failedInARow,
                 admittedAt>>
  /\ UNCHANGED besidesGateway

InitBreaker ==
  jobStore = "reliable" /\ SchedInit /\ FilterIdle /\ GwInit /\ OthersIdle

NextBreaker ==
  \/ AdvanceGwClock
  \/ breakerCheck
  \/ breakerSuccess
  \/ breakerFailure

SpecBreaker == InitBreaker /\ [][NextBreaker]_vars

\* the cron ticks over one PENDING row
InitTicks ==
  /\ jobStore = "reliable" /\ SchedInit /\ FilterIdle /\ GwInit
  /\ TplIdle /\ DocIdle /\ MsgIdle
  /\ TickInit

NextTicks == cronTick

SpecTicks == InitTicks /\ [][NextTicks]_vars

(***************************************************************************)
(* The claims.                                                             *)
(***************************************************************************)
LoopPcs == {"channel", "template", "recipient", "finish", "catch"}

\* C1: of the executeJob calls that selected one job while it was PENDING,
\* at most one gets the row back from the conditional update, and one does
\* whenever another call was answered with nothing (unless a claim call
\* threw and its catch wrote ERROR over the PENDING row); a call that was
\* answered with nothing returns at once: no channel check, no template,
\* no fetch, no send, no write of a status or of a sent flag.
C1_AtomicClaim ==
  /\ \A j \in Jobs : wins[j] <= 1
  /\ \A j \in Jobs : status[j] \in {"RUNNING", "FINISHED"} => wins[j] = 1
  /\ \A r \in Runs :
       claimRes[r] = "null" =>
         /\ pc[r] = "returned"
         /\ work[r] = {} /\ results[r] = <<>>
         /\ wrote[r] = "none" /\ failedWrites[r] = {} /\ sentFailed[r] = {}
         /\ \/ wins[cur[r]] = 1
            \/ wins[cur[r]] = 0 /\ status[cur[r]] = "ERROR"
  /\ \A r \in Runs : pc[r] \in LoopPcs \ {"catch"} => claimRes[r] = "job"

\* two calls selected the same job; one won it, the other got nothing
C1_Witness ==
  \E r1, r2 \in Runs :
    /\ r1 # r2 /\ cur[r1] = cur[r2] /\ cur[r1] # 0
    /\ claimRes[r1] = "job" /\ claimRes[r2] = "null"

\* C2: every change of a job's status is PENDING -> RUNNING,
\* RUNNING -> FINISHED or RUNNING -> ERROR, and FINISHED and ERROR are
\* written only by the executeJob call that won the claim, whatever
\* persistence call throws (the claim call included).
LegalChanges ==
  {<<"PENDING", "RUNNING">>, <<"RUNNING", "FINISHED">>, <<"RUNNING", "ERROR">>}

C2_LegalTransitions ==
  [][/\ \A j \in Jobs :
          status'[j] # status[j] => <<status[j], status'[j]>> \in LegalChanges
     /\ \A r \in Runs :
          wrote'[r] # wrote[r] /\ wrote'[r] \in {"FINISHED", "ERROR"}
            => claimRes[r] = "job"]_vars

\* C3: once the template of a claimed job is resolved, no throw of a
\* recipient enters the catch of executeJob: every recipient of the job is
\* attempted in turn, and the job ends FINISHED however many failed.
C3_RecipientFailuresIsolated ==
  \A r \in Runs :
    idx[r] >= 1 =>
      /\ cause[r] = "none"
      /\ pc[r] \in {"recipient", "finish", "returned"}
      /\ pc[r] = "recipient" => Len(results[r]) = idx[r] - 1
      /\ pc[r] # "recipient" => Len(results[r]) = nUsers[cur[r]]
      /\ pc[r] = "returned" =>
           wrote[r] = "FINISHED" /\ status[cur[r]] = "FINISHED"

\* the first recipient failed, a later one was attempted, the job FINISHED
C3_Witness ==
  \E r \in Runs :
    /\ pc[r] = "returned" /\ status[cur[r]] = "FINISHED"
    /\ Len(results[r]) >= 2 /\ ~results[r][1] /\ results[r][2]

SameTenMinuteBucket(a, b) == MinuteOf(a) \div 10 = MinuteOf(b) \div 10

C5_Window(now, t) ==
  /\ t # NoTime
  /\ DayIndexOf(now) = DayIndexOf(t)
  /\ 0 <= now - t /\ now - t <= 60 * Res
  /\ SameTenMinuteBucket(now, t) \/ now - t >= 2 * Res

C6_ChannelDownAborts ==
  \A r \in Runs :
    "channelDown" \in work[r] =>
      /\ work[r] = {"channelDown"}
      /\ results[r] = <<>> /\ idx[r] = 0
      /\ sent[cur[r]] = InitialSent
      /\ pc[r] \in {"catch", "runCatch"}
      /\ pc[r] = "runCatch" =>
           /\ wrote[r] = "ERROR"
           /\ status[cur[r]] = "ERROR" /\ executedAt[cur[r]]

\* a job with recipients, claimed with the channel down, ended ERROR
C6_Witness ==
  \E r \in Runs :
    /\ "channelDown" \in work[r] /\ pc[r] = "runCatch"
    /\ nUsers[cur[r]] >= 1 /\ status[cur[r]] = "ERROR"

\* C7: if template resolution fails for a claimed job with at least one
\* recipient (the storage call throws, the stored text is blank), the job
\* ends ERROR and no document fetch, send call or sent-flag write is made
\* for any of its recipients.
C7_TemplateFailureAborts ==
  \A r \in Runs :
    work[r] \cap {"throws", "blank"} # {} =>
      /\ nUsers[cur[r]] >= 1
      /\ work[r] \cap {"fetch", "send", "sentWrite"} = {}
      /\ results[r] = <<>> /\ idx[r] = 0
      /\ sent[cur[r]] = InitialSent
      /\ pc[r] \in {"catch", "runCatch"}
      /\ pc[r] = "runCatch" =>
           /\ wrote[r] = "ERROR"
           /\ status[cur[r]] = "ERROR" /\ executedAt[cur[r]]

\* a stored template that is blank ended the job in ERROR
C7_Witness ==
  \E r \in Runs :
    /\ "blank" \in work[r] /\ pc[r] = "runCatch"
    /\ status[cur[r]] = "ERROR"

\* C8: no exception leaves executePendingJobs: whatever throws in a run
\* (the listing, the claim, a job that ends ERROR, the ERROR write itself),
\* the run reaches its catch, returns, and the next run can select again.
C8_NoEscape ==
  \A r \in Runs :
    /\ pc[r] # "escaped"
    /\ pc[r] = "runCatch" => ENABLED executePendingJobsCatch(r)
    /\ pc[r] = "idle" => ENABLED executePendingJobs(r)

\* the ERROR write of a job threw, and the run is in its own catch
C8_Witness ==
  \E r \in Runs : pc[r] = "runCatch" /\ "error" \in failedWrites[r]

\* C9: once 5 deliveries have failed in a row the circuit is open, and a
\* delivery asked for while the circuit is open and cooling down, by the
\* single-document or the multi-document path, has ended at once with the
\* circuit-open error that names a remaining wait, without one send call.
C9_CircuitRefusesAll ==
  /\ failedInARow >= maxFailures => circuitOpen
  /\ \A d \in Callers :
       calls[d].cooling =>
         /\ calls[d].pc = "idle"
         /\ calls[d].result = "circuitOpen"
         /\ calls[d].retryIn >= 1
         /\ calls[d].sendCalls = 0

\* C10: the step in which a delivery ends with everything sent, through
\* either path, leaves the consecutive-failure counter at zero and the
\* circuit closed.
C10_SuccessResets ==
  [][\A d \in Callers :
       (/\ calls[d].pc # "idle"
        /\ calls'[d].pc = "idle"
        /\ calls'[d].result = "sent"
        /\ ~calls'[d].dropped)
         => (consecutiveFailures' = 0 /\ ~circuitOpen')]_vars

\* C11: at every instant, the calls that left checkRateLimit within the
\* 60 seconds before it, the ones that left it after a sleep included, are
\* at most 20.
C11_RateWindow ==
  Len(NewerThan(admittedAt, gwNow - RateWindowMs)) <= maxMessagesPerMinute

\* C12: a call that finds the rate-limit window full sleeps and then goes
\* on: checkRateLimit has no throw, and every sleeping call has eventually
\* left it.
C12_ThrottledProceeds ==
  \A d \in Callers :
    (calls[d].pc = "throttled")
      ~> (calls[d].slept /\ calls[d].pc # "throttled")

\* a call slept in checkRateLimit and stands in the retry loop
C12_Witness ==
  \E d \in Callers :
    calls[d].slept /\ calls[d].pc = "attempt" /\ calls[d].attempt = 1

\* C13: no send call carries a document above 16 MiB, through either path,
\* and a delivery rejected for its size has made no send call.
C13_OversizeNeverSent ==
  \A d \in Callers :
    /\ ~calls[d].bigSent
    /\ calls[d].result = "oversize" => calls[d].sendCalls = 0

\* C14: two successive resolutions of a category call storage at most once
\* in total, whatever the first one returned.
C14_OneFetchForTwo ==
  \A i \in 1..(Len(tplFetched) - 1) : ~(tplFetched[i] /\ tplFetched[i + 1])

\* C15: with no cache entry at the start and a stored row whose text is
\* blank, every resolution that reads the row fails, none returns the
\* default, and the cache stays empty, so the next one fails again.
C15_BlankRowFails ==
  (tplCached0 = "absent" /\ tplRow = "blank")
    => /\ \A i \in 1..Len(tplOutcomes) : tplOutcomes[i] = "throws"
       /\ templateCache[tplType] = "absent"
       /\ \A i \in 1..Len(tplFetched) : tplFetched[i]

\* two resolutions ran against a blank row, starting with an empty cache
C15_Witness ==
  /\ tplCached0 = "absent" /\ tplRow = "blank"
  /\ tplOutcomes = <<"throws", "throws">>

\* C16: while the documents of one recipient are resolved, no tax id is
\* asked of object storage twice.
C16_FetchOncePerTaxId ==
  \A i, j \in 1..Len(docFetches) : docFetches[i] = docFetches[j] => i = j

\* C17: for every combination of the four need flags the rendered message
\* is the substituted text followed by one trailer per flag that is true,
\* in the order papers, Z-closing, purchases, audit-closing, and by nothing
\* else.
TrailerOrder ==
  <<[flag |-> "need_papers", text |-> "papeles de ventas"],
    [flag |-> "need_z", text |-> "cierre Z"],
    [flag |-> "need_compra", text |-> "compras"],
    [flag |-> "need_auditoria", text |-> "cierre de auditoria"]>>
TrailersOf(user) ==
  LET Wanted(t) == user[t.flag] = "true"
      wanted == SelectSeq(TrailerOrder, Wanted)
  IN [i \in 1..Len(wanted) |-> wanted[i].text]
C17_TrailersInOrder ==
  msgText # <<>> =>
    msgText = Substituted(msgTemplate) \o TrailersOf(msgUser)

\* a message was rendered for a recipient that needs the Z-closing and the
\* papers but not the purchases
C17_Witness ==
  /\ msgText # <<>>
  /\ msgUser.need_papers = "true" /\ msgUser.need_z = "true"
  /\ msgUser.need_compra = "false" /\ msgUser.need_auditoria = "null"

\* C18: when a manual trigger returns after a run whose last job ended
\* ERROR or had a recipient that failed, its answer differs from the answer
\* of a run in which everything was sent.
C18_ReportTellsOutcome ==
  [][(/\ pc["manual"] \in {"returned", "runCatch"}
      /\ pc'["manual"] = "idle"
      /\ \/ wrote["manual"] = "ERROR"
         \/ \E i \in 1..Len(results["manual"]) : ~results["manual"][i])
       => response' #
            <<executeJobsManuallyResponse(
                [wrote |-> "FINISHED", results |-> <<TRUE, TRUE>>])>>]_vars

\* C19: every job claimed into RUNNING eventually reaches FINISHED or ERROR
\* with executed_at set, as long as the process keeps running.
C19_RunningEnds ==
  \A j \in Jobs :
    (status[j] = "RUNNING")
      ~> (status[j] \in {"FINISHED", "ERROR"} /\ executedAt[j])

\* C20: with a tick every five minutes, once the ticks are past the last
\* hour of a PENDING row whose execution_time was in the future, some tick
\* no earlier than the execution_time and no later than 60 minutes after
\* it has selected the row.
C20_SelectedWithinHour ==
  PastLastHour(tickNow, tickJobTime) /\ tickJobTime # NoTime
    => /\ tickSelectedAt # NoTime
       /\ tickSelectedAt >= tickJobTime
       /\ tickSelectedAt <= tickJobTime + StaleMinutes * Res

\* C21: at most one run of executePendingJobs, started by the timer or by
\* the manual trigger, is at work on its selected jobs at any time.
C21_OneRunInFlight ==
  ~(/\ pc["cron"] \in LoopPcs \cup {"claim"}
    /\ pc["manual"] \in LoopPcs \cup {"claim"})

\* C22: a resolution that found no text in the cache and no row in storage
\* for a type that is none of the fixed categories fails.
C22_UnknownTypeFails ==
  \A i \in 1..Len(tplOutcomes) :
    (/\ tplType \notin Categories
     /\ tplRow = "null"
     /\ tplFetched[i])
      => tplOutcomes[i] = "throws"

\* C23: every attempt of the retry loop of a single-document delivery leaves
\* the send calls made at 3 or fewer; the delivery ends as sent in the very
\* step whose send call succeeded; it goes on to a next attempt only by
\* raising the attempt number; and it ends as failed only at attempt 3,
\* in a step that raises the consecutive-failure counter by exactly 1.
C23_ThreeAttempts ==
  [][\A d \in Callers :
       (calls[d].pc = "attempt" /\ calls'[d] # calls[d]) =>
         /\ calls'[d].sendCalls <= maxRetries
         /\ calls'[d].pc \in {"attempt", "idle"}
         /\ calls'[d].pc = "attempt" =>
              calls'[d].attempt = calls[d].attempt + 1
         /\ calls'[d].pc = "idle" =>
              \/ /\ calls'[d].result = "sent"
                 /\ calls'[d].sendCalls = calls[d].sendCalls + 1
              \/ /\ calls'[d].result = "failed"
                 /\ calls[d].attempt = maxRetries
                 /\ consecutiveFailures' = consecutiveFailures + 1]_vars

\* a delivery has ended as failed after three send calls
C23_Witness ==
  \E d \in Callers :
    /\ calls[d].pc = "idle"
    /\ calls[d].result = "failed"
    /\ calls[d].sendCalls = maxRetries
    /\ consecutiveFailures >= 1

\* the send calls among the sends and pauses of a delivery
IsSend(ev) == ev.what # "pause"

\* C24: in a multi-document delivery the first send call carries the text
\* alone, the others carry the documents in positional order, and between
\* any two consecutive send calls there is a pause of at least 1 second,
\* also after a send call that failed.
C24_TextThenPacedDocuments ==
  (Len(archives) > 1 /\ docSends # <<>>) =>
    /\ docSends[1].what = "text"
    /\ \A i \in 2..Len(docSends) :
         IsSend(docSends[i]) =>
           /\ docSends[i].what = "document"
           /\ docSends[i - 1].what = "pause"
           /\ docSends[i - 1].ms >= 1000
    /\ \A i, j \in 2..Len(docSends) :
         (IsSend(docSends[i]) /\ IsSend(docSends[j]) /\ i < j)
           => docSends[i].position < docSends[j].position

\* C25: in a multi-document delivery the list handed over holds the
\* recipient's own document first when it was found, then the linked
\* documents in list order, and every document is sent under the filename
\* built from the recipient or linked recipient it was fetched for.
C25_NamedAfterOwner ==
  /\ \A i, j \in 1..Len(docOwners) : i < j => docOwners[i] < docOwners[j]
  /\ \A i \in 1..Len(docSends) :
       docSends[i].what = "document" =>
         docSends[i].named = docOwners[docSends[i].position]

\* the fetch of the recipient's document and of every linked one is over
FetchesOver == docPc \notin {"primary", "joined"}

\* C26, as stated: once the fetches are over, the recipient has failed with
\* no send call made for it exactly when no document was accumulated.
C26_FailsExactlyWithoutDocuments ==
  FetchesOver =>
    ((docPc \in {"noDocs", "threw"} /\ docSends = <<>>) <=> archives = <<>>)

\* C26, amended: once the fetches are over, sendMessageToUser has thrown
\* before asking the gateway for a delivery exactly when no document was
\* accumulated, and then no send call is made and the recipient is not
\* recorded as delivered; with a linked document found the delivery is
\* asked for, whether the recipient's own document was found or not.
C26_NoDocumentsThrowsBeforeDelivery ==
  FetchesOver =>
    /\ docPc = "noDocs" <=> archives = <<>>
    /\ docPc = "noDocs" => (docSends = <<>> /\ ~docRecorded)

\* the recipient's own document was asked for and not found, a linked one
\* was found, and the recipient was recorded as delivered
C26_Witness ==
  /\ docPc = "recorded"
  /\ docFetches # <<>> /\ docFetches[1] = docCuit
  /\ docOwners = <<1>>

\* C27: every turn of the recipient loop, whether its delivery succeeded
\* or failed, ends with a pause of about 1.5 seconds.
C27_PauseAfterEveryRecipient ==
  \A r \in Runs :
    /\ Len(pauses[r]) = Len(results[r])
    /\ \A k \in 1..Len(pauses[r]) : pauses[r][k] >= 1500

\* the jobs a run selected after the one it is executing
SelectedAfter(r) == {queue[r][i] : i \in 2..Len(queue[r])}

\* C28: the catch of executeJob, whether or not its ERROR write went
\* through, hands the throw to the catch of the run, and the run then
\* returns: neither step claims or changes a job selected after the failed
\* one, and the run drops them.
C28_ErrorStopsRun ==
  [][\A r \in Runs :
       /\ (pc[r] = "catch" /\ pc'[r] # "catch") =>
            /\ pc'[r] = "runCatch"
            /\ queue'[r] = queue[r]
            /\ \A j \in SelectedAfter(r) :
                 status'[j] = status[j] /\ wins'[j] = wins[j]
       /\ (pc[r] = "runCatch" /\ pc'[r] # "runCatch") =>
            /\ pc'[r] = "idle"
            /\ queue'[r] = <<>>
            /\ \A j \in SelectedAfter(r) :
                 status'[j] = status[j] /\ wins'[j] = wins[j]]_vars

\* a run wrote ERROR for the first of the two jobs it selected and is in
\* its own catch, the second job still PENDING
C28_Witness ==
  \E r \in Runs :
    /\ pc[r] = "runCatch"
    /\ wrote[r] = "ERROR"
    /\ Len(queue[r]) = 2
    /\ status[queue[r][1]] = "ERROR"
    /\ status[queue[r][2]] = "PENDING"

\* C29: a recipient is recorded as delivered only if the text and every
\* document found for it were handed to the channel without error, on the
\* single-document path and on the multi-document path.
C29_RecordedOnlyIfAllSent ==
  docRecorded =>
    \A i \in 1..Len(docSends) : docSends[i].ok

\* C30: in every state of the gateway reached by calls of
\* checkCircuitBreaker, recordSuccess and recordFailure in any order, the
\* circuit is open exactly when the consecutive failures are 5 or more, and
\* exactly when circuitOpenUntil is set.
C30_BreakerFieldsAgree ==
  /\ circuitOpen <=> consecutiveFailures >= maxFailures
  /\ circuitOpen <=> circuitOpenUntil # NoTime

\* a failure was recorded while the circuit was open
C30_Witness ==
  circuitOpen /\ consecutiveFailures > maxFailures

====
